---- MODULE Spec2Model ----
(***************************************************************************)
(* Florence-2 + SAM2 segmentation pipeline of lazy_tools/lazy_segment.py:  *)
(* the command-line entry point main(), the FloSAM2Pipeline object, its    *)
(* grounding, segmentation and compositing stages, and the path and pixel  *)
(* arithmetic they perform.                                                *)
(*                                                                         *)
(* Paths are sequences of atoms: "/" and "." are the separator and the dot *)
(* characters, every other atom is a run of characters holding neither.    *)
(* os.path is modelled as posixpath.  An optional value is a sequence of   *)
(* length 0 (Python's None) or 1.                                          *)
(***************************************************************************)
EXTENDS Integers, Sequences, FiniteSets, TLC

\* ------------------------------------------------------------- bounds
\* Longest path, in atoms, that the path specification draws.
MaxPathLen == 3
\* Pixels of an image (height * width).
NPix == 2
\* Longest mask list handed to a compositing call.
MaxMasks == 2
\* Longest box list and label list the grounding post-processor returns.
MaxBoxes == 2

\* ------------------------------------------------------------- optionals
None == <<>>
Some(x) == <<x>>
IsNone(o) == o = <<>>
Get(o) == o[1]

\* ------------------------------------------------------------- strings
PathAtoms == {"/", ".", "photo", "png", "PNG", "jpg"}

\* str.lower() on one atom.
Lower(a) == IF a = "PNG" THEN "png" ELSE a

\* str.lower() on a whole path.
LowerPath(p) == [i \in 1..Len(p) |-> Lower(p[i])]

\* str.endswith(suffix)
EndsWith(p, suffix) ==
    /\ Len(p) >= Len(suffix)
    /\ SubSeq(p, Len(p) - Len(suffix) + 1, Len(p)) = suffix

\* str.rfind(c) + 1: the last position of atom c in p, 0 when absent.
RFind(p, c) ==
    LET hits == {i \in 1..Len(p) : p[i] = c}
    IN IF hits = {} THEN 0 ELSE CHOOSE i \in hits : \A j \in hits : j <= i

\* posixpath.splitext: the extension starts at the last dot of the last
\* component, unless only dots precede it in that component.
splitext(p) ==
    LET sep == RFind(p, "/")
        dot == RFind(p, ".")
    IN IF dot > sep /\ \E k \in (sep + 1)..(dot - 1) : p[k] # "."
       THEN <<SubSeq(p, 1, dot - 1), SubSeq(p, dot, Len(p))>>
       ELSE <<p, <<>>>>

\* posixpath.basename
basename(p) == SubSeq(p, RFind(p, "/") + 1, Len(p))

\* str.rstrip("/")
RECURSIVE RStripSep(_)
RStripSep(p) ==
    IF p # <<>> /\ p[Len(p)] = "/" THEN RStripSep(SubSeq(p, 1, Len(p) - 1))
    ELSE p

\* posixpath.dirname
dirname(p) ==
    LET head == SubSeq(p, 1, RFind(p, "/"))
    IN IF head # <<>> /\ \E k \in 1..Len(head) : head[k] # "/"
       THEN RStripSep(head)
       ELSE head

\* posixpath.join(a, b)
join(a, b) ==
    IF b # <<>> /\ b[1] = "/" THEN b
    ELSE IF a = <<>> \/ a[Len(a)] = "/" THEN a \o b
    ELSE a \o <<"/">> \o b

PngExt == <<".", "png">>
CutoutSuffix == <<"_cutout", ".", "png">>
MaskSuffix == <<"_mask", ".", "jpg">>

\* ------------------------------------------------------------- images
\* An image is [mode, px]: px[i] is pixel i, a tuple of 3 (RGB) or 4 (RGBA)
\* channel values, each a uint8.
\* PIL Image.convert("RGB"): an RGBA image loses its alpha channel.
convert_RGB(img) ==
    [mode |-> "RGB", px |-> [i \in 1..Len(img.px) |-> SubSeq(img.px[i], 1, 3)]]

\* PIL Image.convert("RGBA") of an RGB image: a fully opaque alpha is added.
convert_RGBA(img) ==
    [mode |-> "RGBA",
     px |-> [i \in 1..Len(img.px) |-> SubSeq(img.px[i], 1, 3) \o <<255>>]]

\* mask.astype(bool): a numeric mask element is true when it is not zero.
astype_bool(v) == v # 0

\* red_color and alpha of create_red_mask_overlay; alpha = AlphaNum / AlphaDen.
red_color == <<255, 0, 0>>
AlphaNum == 1
AlphaDen == 2

\* A store that rounds to the nearest integer instead of dropping the fraction.
StoreUint8Round(num) == ((2 * num + AlphaDen) \div (2 * AlphaDen)) % 256

\* Storing a float64 into a uint8 array: numpy casts as C does, dropping the
\* fraction.  num / AlphaDen is the float value (never negative here).
StoreUint8(num) == (num \div AlphaDen) % 256

\* overlay[mask] * (1 - alpha) + red_color * alpha for one channel, stored
\* back into the uint8 array overlay.
BlendChannel(v, c) == StoreUint8(v * (AlphaDen - AlphaNum) + c * AlphaNum)

\* One iteration of the mask loop of create_red_mask_overlay on pixel array px.
ApplyRedMask(px, mask) ==
    [i \in 1..Len(px) |->
        IF astype_bool(mask[i])
        THEN [ch \in 1..Len(px[i]) |-> BlendChannel(px[i][ch], red_color[ch])]
        ELSE px[i]]

\* A mask loop that blends every pixel of the union of the masks once.
ApplyRedMasksOnce(px, masks) ==
    [i \in 1..Len(px) |->
        IF \E m \in 1..Len(masks) : astype_bool(masks[m].mask[i])
        THEN [ch \in 1..Len(px[i]) |-> BlendChannel(px[i][ch], red_color[ch])]
        ELSE px[i]]

\* The whole mask loop: masks applied one after the other in list order.
RECURSIVE ApplyRedMasks(_, _)
ApplyRedMasks(px, masks) ==
    IF masks = <<>> THEN px
    ELSE ApplyRedMasks(ApplyRedMask(px, Head(masks).mask), Tail(masks))

\* The format PIL's Image.save picks from the file name: splitext(name)[1]
\* lower-cased; an unknown extension raises ValueError.
SaveFormat(path) ==
    LET ext == LowerPath(splitext(path)[2])
    IN IF ext = <<".", "png">> THEN "PNG"
       ELSE IF ext = <<".", "jpg">> THEN "JPEG"
       ELSE "unknown"

\* Whether result_image.save(output_path) of the overlay succeeds: the format
\* must be known, JPEG cannot hold an alpha channel, and the write itself
\* (ioOk) must succeed.
OverlaySaveOk(img, path, ioOk) ==
    /\ ioOk
    /\ SaveFormat(path) # "unknown"
    /\ ~(SaveFormat(path) = "JPEG" /\ img.mode = "RGBA")

CompositeFailed == [result |-> None, file |-> None, out |-> None]

\* create_red_mask_overlay(image, masks, output_path).  The blend adds a
\* 3-element colour to the selected pixels, which raises for a 4-channel
\* array; every exception is caught and gives None.
create_red_mask_overlay(img, masks, output_path, ioOk) ==
    IF img.mode = "RGBA" /\ masks # <<>> THEN CompositeFailed
    ELSE LET result_image == [mode |-> img.mode, px |-> ApplyRedMasks(img.px, masks)]
         IN IF OverlaySaveOk(result_image, output_path, ioOk)
            THEN [result |-> Some(output_path),
                  file |-> Some([path |-> output_path, image |-> result_image,
                                 format |-> SaveFormat(output_path)]),
                  out |-> Some(result_image)]
            ELSE CompositeFailed

\* combined_mask of create_transparent_cutout: the OR of all masks.
combined_mask(masks, i) == \E m \in 1..Len(masks) : astype_bool(masks[m].mask[i])

\* A cutout path whose ".png" test forgets lower().
cutout_path_case_sensitive(output_path) ==
    IF ~EndsWith(output_path, PngExt)
    THEN splitext(output_path)[1] \o PngExt
    ELSE output_path

\* The path create_transparent_cutout saves to.
cutout_path(output_path) ==
    IF ~EndsWith(LowerPath(output_path), PngExt)
    THEN splitext(output_path)[1] \o PngExt
    ELSE output_path

\* An alpha assignment that only clears the background and keeps the alpha
\* the image had inside the masks.
CutoutPixelsKeepAlpha(img, masks) ==
    [i \in 1..Len(img.px) |->
        IF combined_mask(masks, i) THEN img.px[i]
        ELSE SubSeq(img.px[i], 1, 3) \o <<0>>]

\* image_array[:, :, 3] = np.where(combined_mask, 255, 0)
CutoutPixels(img, masks) ==
    [i \in 1..Len(img.px) |->
        SubSeq(img.px[i], 1, 3) \o <<IF combined_mask(masks, i) THEN 255 ELSE 0>>]

\* create_transparent_cutout(image, masks, output_path): always saved as PNG.
create_transparent_cutout(img, masks, output_path, ioOk) ==
    LET image_rgba == IF img.mode # "RGBA" THEN convert_RGBA(img) ELSE img
        result_image == [mode |-> "RGBA", px |-> CutoutPixels(image_rgba, masks)]
        path == cutout_path(output_path)
    IN IF ioOk
       THEN [result |-> Some(path),
             file |-> Some([path |-> path, image |-> result_image, format |-> "PNG"]),
             out |-> Some(result_image)]
       ELSE CompositeFailed

\* ------------------------------------------------------------- state
VARIABLES
    pc,                 \* position of the run
    args,               \* parsed arguments: image_path, output_path, cutout, model,
                        \* models_dir
    imageFile,          \* the image stored at image_path (None: no such file)
    ckpts,              \* the checkpoint files that exist (full paths)
    cfgs,               \* variants whose config file exists in the sam2 package
    models_dir,         \* self.models_dir (None: no pipeline object yet)
    florence_model,     \* self.florence_model is set
    sam2_predictor,     \* self.sam2_predictor (None, or the variant built)
    image,              \* the image the request works on
    grounding_results,  \* result of florence_phrase_grounding
    segmentation_masks, \* result of sam2_segmentation
    result_path,        \* what the compositing call returned
    result_image,       \* the image the compositing call built
    outFiles,           \* files written by this run, in order
    exit_code,          \* exit status of the process (None: still running)
    raised,             \* the exception that ended the try block of main
    log,                \* progress lines printed and library calls made
    workers,            \* host: the SegmentationWorker threads started so far
    worker_thread,      \* host: self.worker_thread (0: None, else index in workers)
    ui,                 \* host: Run button, Cancel button, progress bar
    tempFiles,          \* host: the temporary output files that exist
    queue               \* host: signals emitted and not yet handled by the GUI thread

\* The state of the plugin's segmentation section in the host application.
hostVars == <<workers, worker_thread, ui, tempFiles, queue>>

\* The state of one run of the pipeline script.
pipelineVars == <<pc, args, imageFile, ckpts, cfgs, models_dir, florence_model,
                  sam2_predictor, image, grounding_results, segmentation_masks, result_path,
                  result_image, outFiles, exit_code, raised, log>>

vars == <<pipelineVars, hostVars>>

Range(s) == {s[i] : i \in 1..Len(s)}
Events(l) == {l[i][1] : i \in 1..Len(l)}

\* ------------------------------------------------------------- model loader
\* __file__ of the pipeline script, and a directory a caller names with
\* --models-dir.
ScriptFile == <<"/", "plugin", "/", "lazy_segment", ".", "py">>
OptionDir == <<"/", "cache">>

\* A constructor that takes the model directory from --models-dir when given.
init_models_dir_from_option ==
    IF IsNone(args.models_dir) THEN join(dirname(ScriptFile), <<"models">>)
    ELSE Get(args.models_dir)

\* __init__, line 35: self.models_dir.
init_models_dir == join(dirname(ScriptFile), <<"models">>)

\* __init__, line 39: self.florence_model_path.
florence_model_path(dir) == join(dir, <<"florence-2-large-ft">>)

\* sam2_models[key]["checkpoint"], lines 142-153.
CheckpointFile ==
    [base_plus |-> <<"sam2.1_hiera_base_plus", ".", "pt">>,
     large |-> <<"sam2.1_hiera_large", ".", "pt">>]

\* os.path.dirname(__file__), line 173.
ScriptDir == dirname(ScriptFile)

\* sam2_configs[..]["checkpoint"], lines 172-176: resolved from __file__
\* again, not from self.models_dir.
checkpoint_path(v) == join(join(ScriptDir, <<"models">>), CheckpointFile[v])

\* sam2_configs, lines 169-183: the checkpoint path of every variant, resolved
\* once before the candidate loop.
sam2_configs == [v \in DOMAIN CheckpointFile |-> checkpoint_path(v)]

\* The variants whose checkpoint_path exists.
checkpoints_found == {v \in DOMAIN CheckpointFile : sam2_configs[v] \in ckpts}

\* main(), lines 682-687: the directory shown to the user.
shown_models_dir(a) == IF IsNone(a.models_dir) THEN "default" ELSE "option"

\* Keys of sam2_models, in declaration order.
Variants == <<"base_plus", "large">>

\* A candidate list that ignores the requested variant.
selected_models_declaration_order(key) == Variants

\* selected_models: the requested variant first, then the others.
selected_models(key) ==
    IF key \in Range(Variants)
    THEN <<key>> \o SelectSeq(Variants, LAMBDA v : v # key)
    ELSE Variants

\* The candidate loop of _load_models.  build[c] is what building candidate c
\* does: "ok", "build_raises" (build_sam2 raises) or "predictor_raises"
\* (SAM2ImagePredictor raises after sam2_model was assigned).
RECURSIVE try_sam2(_, _, _, _)
try_sam2(cands, ck, cf, build) ==
    IF cands = <<>> THEN [predictor |-> None, sam2_model |-> FALSE, log |-> <<>>]
    ELSE LET c == Head(cands)
             rest == try_sam2(Tail(cands), ck, cf, build)
         IN IF c \in ck /\ c \in cf
            THEN IF build[c] = "ok"
                 THEN [predictor |-> Some(c), sam2_model |-> TRUE,
                       log |-> << <<"build_sam2", c>> >>]
                 ELSE [predictor |-> rest.predictor,
                       sam2_model |-> rest.sam2_model \/ build[c] = "predictor_raises",
                       log |-> << <<"build_sam2", c>>, <<"sam2_failed", c>> >> \o rest.log]
            ELSE rest

\* The SAM2 half of _load_models.
load_sam2(key, importOk, ck, cf, build) ==
    IF ~importOk
    THEN [predictor |-> None, log |-> << <<"sam2_error", "-">> >>]
    ELSE LET r == try_sam2(selected_models(key), ck, cf, build)
         IN [predictor |-> r.predictor,
             log |-> r.log \o (IF r.sam2_model THEN <<>>
                               ELSE << <<"sam2_all_failed", "-">> >>)]

\* How the two loads of Florence-2 can go.  The standard load (lines 52-100)
\* works, raises before self.florence_model is assigned, or raises after it:
\* in the download branch save_pretrained runs when the handle is already
\* set.  The fallback load (107-124) works or raises.
FloOutcomes ==
    {[standard |-> "ok", fallback |-> "unused"]}
    \cup [standard : {"raises", "raises_in_save"}, fallback : {"ok", "raises"}]

\* _load_models.  flo is how loading Florence-2 goes, one of FloOutcomes.  No
\* handler resets self.florence_model, and the handler of the fallback load
\* returns from _load_models.
load_models(key, flo, importOk, ck, cf, build) ==
    LET floLog == << <<"load_florence", "standard">> >>
                  \o (IF flo.standard = "raises_in_save"
                      THEN << <<"save_pretrained", "-">> >> ELSE <<>>)
                  \o (IF flo.standard = "ok" THEN <<>>
                      ELSE << <<"load_florence", "fallback">> >>)
        sam == load_sam2(key, importOk, ck, cf, build)
    IN IF flo.standard # "ok" /\ flo.fallback = "raises"
       THEN [florence_model |-> flo.standard = "raises_in_save",
             sam2_predictor |-> None,
             log |-> floLog \o << <<"florence_failed", "-">> >>]
       ELSE [florence_model |-> TRUE, sam2_predictor |-> sam.predictor,
             log |-> floLog \o << <<"load_sam2", "-">> >> \o sam.log]

\* ------------------------------------------------------------- grounding
\* Bounding boxes the post-processor can emit (coordinates abstracted).
Boxes == {"boxA", "boxB"}

RECURSIVE SeqsUpTo(_, _)
SeqsUpTo(S, n) ==
    IF n = 0 THEN {<<>>}
    ELSE LET shorter == SeqsUpTo(S, n - 1)
         IN shorter \cup {Append(q, x) : q \in {r \in shorter : Len(r) = n - 1}, x \in S}

Min(a, b) == IF a < b THEN a ELSE b

\* for bbox, label in zip(bboxes, labels): results.append({...})
zip_results(bboxes, labels) ==
    [i \in 1..Min(Len(bboxes), Len(labels)) |->
        [bbox |-> bboxes[i], label |-> labels[i], confidence |-> "1.0"]]

\* The keyword arguments of the first generate call, lines 294-308.
primary_generate_kwargs ==
    [max_new_tokens |-> 1024, do_sample |-> FALSE, num_beams |-> 1,
     use_cache |-> FALSE, return_dict_in_generate |-> TRUE, output_scores |-> FALSE]

\* A second generate call that keeps the token budget of the first.
minimal_generate_kwargs_full_budget ==
    [max_new_tokens |-> 1024, do_sample |-> FALSE, use_cache |-> FALSE]

\* The keyword arguments of the second generate call, lines 325-331.
minimal_generate_kwargs ==
    [max_new_tokens |-> 100, do_sample |-> FALSE, use_cache |-> FALSE]

\* florence_phrase_grounding(image, text_prompt).  o says what the library
\* calls do in this call:
\*   o.pre    "ok" | "raise" (processor or device move raises)
\*            | "none_input" (an input tensor is None)
\*   o.gen    "ok" | "retry_ok" (generate raised, the minimal one worked)
\*            | "fail" (both raised)
\*   o.post   "ok" | "raise" (decoding or post-processing raises)
\*            | "no_task" | "no_keys" (the parsed answer lacks the keys)
\*   o.bboxes, o.labels   the parsed answer's parallel lists
florence_phrase_grounding(loaded, o) ==
    IF ~loaded
    THEN [results |-> <<>>, log |-> << <<"florence_not_loaded", "-">> >>]
    ELSE LET l1 == << <<"processor", "-">> >>
         IN IF o.pre = "raise"
            THEN [results |-> <<>>, log |-> l1 \o << <<"grounding_error", "-">> >>]
            ELSE IF o.pre = "none_input"
            THEN [results |-> <<>>, log |-> l1 \o << <<"input_none", "-">> >>]
            ELSE LET l2 == l1 \o << <<"generate", primary_generate_kwargs>> >>
                           \o (IF o.gen = "ok" THEN <<>>
                               ELSE << <<"primary_generation_error", "-">>,
                                       <<"generate", minimal_generate_kwargs>> >>)
                 IN IF o.gen = "fail"
                    THEN [results |-> <<>>,
                          log |-> l2 \o << <<"generation_failed", "-">> >>]
                    ELSE IF o.post = "raise"
                    THEN [results |-> <<>>,
                          log |-> l2 \o << <<"grounding_error", "-">> >>]
                    ELSE IF o.post \in {"no_task", "no_keys"}
                    THEN [results |-> <<>>, log |-> l2 \o << <<"found", "-">> >>]
                    ELSE [results |-> zip_results(o.bboxes, o.labels),
                          log |-> l2 \o << <<"found", "-">> >>]

\* What the library calls of one grounding call can do.
GroundOutcomes ==
    [pre : {"raise", "none_input"}, gen : {"ok"}, post : {"ok"},
     bboxes : {<<>>}, labels : {<<>>}]
    \cup [pre : {"ok"}, gen : {"fail"}, post : {"ok"}, bboxes : {<<>>}, labels : {<<>>}]
    \cup [pre : {"ok"}, gen : {"ok", "retry_ok"}, post : {"raise", "no_task", "no_keys"},
          bboxes : {<<>>}, labels : {<<>>}]
    \cup [pre : {"ok"}, gen : {"ok", "retry_ok"}, post : {"ok"},
          bboxes : SeqsUpTo(Boxes, MaxBoxes), labels : SeqsUpTo({"label"}, MaxBoxes)]

\* ------------------------------------------------------------- segmentation
\* Masks the predictor returns in a pipeline run: float arrays of 0.0 and 1.0.
AllMasks == [1..NPix -> 0..1]
PredictMasks == {[i \in 1..NPix |-> 1], [i \in 1..NPix |-> IF i = 1 THEN 1 ELSE 0]}

\* The keyword arguments of the predict call for one box, lines 413-418.
predict_kwargs(bbox) ==
    [point_coords |-> "None", point_labels |-> "None", box |-> bbox,
     multimask_output |-> FALSE]

\* The events of the predict loop up to and including call number n.
predict_log(bboxes, n) == [i \in 1..n |-> <<"predict", predict_kwargs(bboxes[i])>>]

\* A segmentation stage that calls predict a second time for the box whose
\* call raised and then goes on with the boxes after it.
sam2_segmentation_retry(predictor, bboxes, o) ==
    IF IsNone(predictor)
    THEN [masks |-> <<>>, log |-> << <<"sam2_not_loaded", "-">> >>]
    ELSE LET l1 == << <<"set_image", "-">> >>
             all == [i \in 1..Len(bboxes) |-> [mask |-> o.masks[i], bbox |-> bboxes[i]]]
         IN IF ~o.set_image_ok
            THEN [masks |-> <<>>, log |-> l1 \o << <<"segmentation_error", "-">> >>]
            ELSE IF o.fail_at \in 1..Len(bboxes)
            THEN [masks |-> all,
                  log |-> l1 \o predict_log(bboxes, o.fail_at)
                          \o << <<"segmentation_error", "-">> >>
                          \o SubSeq(predict_log(bboxes, Len(bboxes)), o.fail_at, Len(bboxes))
                          \o << <<"generated", "-">> >>]
            ELSE [masks |-> all,
                  log |-> l1 \o predict_log(bboxes, Len(bboxes))
                          \o << <<"generated", "-">> >>]

\* A segmentation stage that catches the exception per box: it skips the box
\* whose predict call raised and goes on with the others.
sam2_segmentation_skip_failed(predictor, bboxes, o) ==
    IF IsNone(predictor)
    THEN [masks |-> <<>>, log |-> << <<"sam2_not_loaded", "-">> >>]
    ELSE LET kept == SelectSeq([i \in 1..Len(bboxes) |-> i],
                               LAMBDA i : ~(o.set_image_ok /\ i = o.fail_at))
         IN [masks |-> [j \in 1..Len(kept) |->
                          [mask |-> o.masks[kept[j]], bbox |-> bboxes[kept[j]]]],
             log |-> << <<"set_image", "-">> >> \o predict_log(bboxes, Len(bboxes))
                     \o (IF Len(kept) < Len(bboxes)
                         THEN << <<"segmentation_error", "-">> >> ELSE <<>>)
                     \o << <<"generated", "-">> >>]

\* A segmentation stage that attaches the boxes to the masks in reverse order.
sam2_segmentation_reversed(predictor, bboxes, o) ==
    IF IsNone(predictor)
    THEN [masks |-> <<>>, log |-> << <<"sam2_not_loaded", "-">> >>]
    ELSE [masks |-> [i \in 1..Len(bboxes) |->
                       [mask |-> o.masks[i], bbox |-> bboxes[Len(bboxes) + 1 - i]]],
          log |-> << <<"set_image", "-">> >> \o predict_log(bboxes, Len(bboxes))
                  \o << <<"generated", "-">> >>]

\* A segmentation stage without the test of the handle at lines 393-395: it
\* goes on to set_image, which raises on the unset predictor.
sam2_segmentation_unchecked(predictor, bboxes, o) ==
    IF IsNone(predictor)
    THEN [masks |-> <<>>,
          log |-> << <<"set_image", "-">>, <<"segmentation_error", "-">> >>]
    ELSE [masks |-> [i \in 1..Len(bboxes) |-> [mask |-> o.masks[i], bbox |-> bboxes[i]]],
          log |-> << <<"set_image", "-">> >> \o predict_log(bboxes, Len(bboxes))
                  \o << <<"generated", "-">> >>]

\* A segmentation stage that sets the image again before every predict call.
sam2_segmentation_set_image_per_box(predictor, bboxes, o) ==
    IF IsNone(predictor)
    THEN [masks |-> <<>>, log |-> << <<"sam2_not_loaded", "-">> >>]
    ELSE LET calls == [i \in 1..(2 * Len(bboxes)) |->
                         IF i % 2 = 1 THEN <<"set_image", "-">>
                         ELSE <<"predict", predict_kwargs(bboxes[i \div 2])>>]
         IN [masks |-> [i \in 1..Len(bboxes) |-> [mask |-> o.masks[i], bbox |-> bboxes[i]]],
             log |-> calls \o << <<"generated", "-">> >>]

\* A segmentation stage that predicts once per distinct box and returns one
\* mask for each.
sam2_segmentation_merge_duplicates(predictor, bboxes, o) ==
    IF IsNone(predictor)
    THEN [masks |-> <<>>, log |-> << <<"sam2_not_loaded", "-">> >>]
    ELSE LET kept == SelectSeq([i \in 1..Len(bboxes) |-> i],
                               LAMBDA i : \A j \in 1..(i - 1) : bboxes[j] # bboxes[i])
             boxes == [j \in 1..Len(kept) |-> bboxes[kept[j]]]
         IN [masks |-> [j \in 1..Len(kept) |-> [mask |-> o.masks[kept[j]], bbox |-> boxes[j]]],
             log |-> << <<"set_image", "-">> >> \o predict_log(boxes, Len(boxes))
                     \o << <<"generated", "-">> >>]

\* sam2_segmentation(image, bboxes).  o says what the predictor does:
\*   o.set_image_ok   set_image returns
\*   o.fail_at        the number of the predict call that raises (0: none)
\*   o.masks          the mask each predict call returns
sam2_segmentation(predictor, bboxes, o) ==
    IF IsNone(predictor)
    THEN [masks |-> <<>>, log |-> << <<"sam2_not_loaded", "-">> >>]
    ELSE LET l1 == << <<"set_image", "-">> >>
         IN IF ~o.set_image_ok
            THEN [masks |-> <<>>, log |-> l1 \o << <<"segmentation_error", "-">> >>]
            ELSE IF o.fail_at \in 1..Len(bboxes)
            THEN [masks |-> <<>>,
                  log |-> l1 \o predict_log(bboxes, o.fail_at)
                          \o << <<"segmentation_error", "-">> >>]
            ELSE [masks |-> [i \in 1..Len(bboxes) |->
                               [mask |-> o.masks[i], bbox |-> bboxes[i]]],
                  log |-> l1 \o predict_log(bboxes, Len(bboxes))
                          \o << <<"generated", "-">> >>]

\* What the predictor can do in one segmentation call on n boxes.
SegOutcomes(n) ==
    [set_image_ok : {FALSE}, fail_at : {0}, masks : {[i \in 1..n |-> [p \in 1..NPix |-> 1]]}]
    \cup [set_image_ok : {TRUE}, fail_at : 1..n,
          masks : {[i \in 1..n |-> [p \in 1..NPix |-> 1]]}]
    \cup [set_image_ok : {TRUE}, fail_at : {0}, masks : [1..n -> PredictMasks]]

\* ------------------------------------------------------------- orchestrator
\* Step 3 of process_image: the output path used when the caller gave none
\* ("if not output_path": None and the empty string both count as none).
derived_output_path(image_path, output_type) ==
    LET base_name == splitext(basename(image_path))[1]
        output_dir == dirname(image_path)
    IN IF output_type = "cutout"
       THEN join(output_dir, base_name \o CutoutSuffix)
       ELSE join(output_dir, base_name \o MaskSuffix)

\* A step 3 that derives the path even when the caller gave one.
step3_output_path_always_derived(image_path, output_path, output_type) ==
    derived_output_path(image_path, output_type)

\* Step 3 of process_image, lines 576-583: the path handed to the compositing
\* call.
step3_output_path(image_path, output_path, output_type) ==
    IF IsNone(output_path) \/ Get(output_path) = <<>>
    THEN derived_output_path(image_path, output_type)
    ELSE Get(output_path)

\* A step 3 whose test of output_type is inverted.
step3_composite_swapped(img, masks, image_path, output_path, output_type, ioOk) ==
    LET path == step3_output_path(image_path, output_path, output_type)
    IN IF output_type # "cutout"
       THEN create_transparent_cutout(img, masks, path, ioOk)
       ELSE create_red_mask_overlay(img, masks, path, ioOk)

\* Step 3 of process_image: the compositing call chosen by output_type.
step3_composite(img, masks, image_path, output_path, output_type, ioOk) ==
    LET path == step3_output_path(image_path, output_path, output_type)
    IN IF output_type = "cutout"
       THEN create_transparent_cutout(img, masks, path, ioOk)
       ELSE create_red_mask_overlay(img, masks, path, ioOk)

\* output_type = "cutout" if args.cutout else "overlay"
output_type_of(a) == IF a.cutout THEN "cutout" ELSE "overlay"

\* ------------------------------------------------------------- inputs
PhotoJpg == <<"photo", ".", "jpg">>
OutJpg == <<"out", ".", "jpg">>
OutPng == <<"out", ".", "png">>

\* The image stored in the input file: fixed pixel values, 3 or 4 channels.
FileImage(mode) ==
    [mode |-> mode,
     px |-> [i \in 1..NPix |->
               <<10 * i, 20 * i, 30 * i>> \o (IF mode = "RGBA" THEN <<128>> ELSE <<>>)]]

BuildOutcomes == {"ok", "build_raises", "predictor_raises"}

\* The positions inside the try block of main.
TryPcs == {"construct", "process_image", "ground", "segment", "composite", "return"}

\* ------------------------------------------------------------- actions
\* A main() that goes on to build the pipeline without validating the input.
main_validate_no_exit ==
    /\ pc = "main"
    /\ UNCHANGED <<hostVars, models_dir>>
    /\ pc' = "construct"
    /\ UNCHANGED <<args, imageFile, ckpts, cfgs, florence_model, sam2_predictor, image,
                   grounding_results, segmentation_masks, result_path, result_image,
                   outFiles, raised, exit_code, log>>

\* main(), lines 661-664: validate the input image.
main_validate ==
    /\ pc = "main"
    /\ UNCHANGED <<hostVars, models_dir>>
    /\ IF IsNone(imageFile)
       THEN /\ pc' = "exited"
            /\ exit_code' = Some(1)
            /\ log' = Append(log, <<"input_not_found", "-">>)
       ELSE /\ pc' = "construct"
            /\ log' = Append(log, <<"models_directory", shown_models_dir(args)>>)
            /\ UNCHANGED exit_code
    /\ UNCHANGED <<args, imageFile, ckpts, cfgs, florence_model, sam2_predictor, image,
                   grounding_results, segmentation_masks, result_path, result_image,
                   outFiles, raised>>

\* FloSAM2Pipeline.__init__ with _load_models.  os.makedirs is outside every
\* try block of the constructor: when it raises, main's handler exits 1.
\* "import sam2" at line 137 cannot raise here: the module's own imports at
\* lines 20-21 have loaded the package before main() runs.
pipeline_init ==
    /\ pc = "construct"
    /\ UNCHANGED hostVars
    /\ models_dir' = Some(init_models_dir)
    /\ \E makedirsOk \in BOOLEAN, flo \in FloOutcomes,
          importOk \in {TRUE}, build \in [Range(Variants) -> BuildOutcomes] :
        IF ~makedirsOk
        THEN /\ raised' = "Exception"
             /\ exit_code' = Some(1)
             /\ pc' = "exited"
             /\ log' = Append(log, <<"initialization_error", "-">>)
             /\ UNCHANGED <<florence_model, sam2_predictor>>
        ELSE LET r == load_models(args.model, flo, importOk, checkpoints_found, cfgs, build)
             IN /\ florence_model' = r.florence_model
                /\ sam2_predictor' = r.sam2_predictor
                /\ log' = log \o r.log
                /\ pc' = "process_image"
                /\ UNCHANGED <<raised, exit_code>>
    /\ UNCHANGED <<args, imageFile, ckpts, cfgs, image, grounding_results,
                   segmentation_masks, result_path, result_image, outFiles>>

\* process_image, lines 545-556: the input file may have gone since main
\* checked it, and Image.open may raise on it (caught at line 605).
process_image_open ==
    /\ pc = "process_image"
    /\ UNCHANGED <<hostVars, models_dir>>
    /\ \E present \in BOOLEAN, decodeOk \in BOOLEAN :
        IF ~present
        THEN /\ imageFile' = None
             /\ log' = Append(log, <<"image_not_found", "-">>)
             /\ pc' = "return"
             /\ UNCHANGED image
        ELSE IF ~decodeOk
        THEN /\ log' = Append(log, <<"pipeline_error", "-">>)
             /\ pc' = "return"
             /\ UNCHANGED <<image, imageFile>>
        ELSE /\ image' = Some(convert_RGB(Get(imageFile)))
             /\ log' = Append(log, <<"loaded_image", "-">>)
             /\ pc' = "ground"
             /\ UNCHANGED imageFile
    /\ UNCHANGED <<args, ckpts, cfgs, florence_model, sam2_predictor,
                   grounding_results, segmentation_masks, result_path, result_image,
                   outFiles, exit_code, raised>>

\* A step 1 that lacks the empty-result return and always goes on to step 2.
process_image_ground_no_return ==
    /\ pc = "ground"
    /\ UNCHANGED <<hostVars, models_dir>>
    /\ \E o \in GroundOutcomes :
        LET r == florence_phrase_grounding(florence_model, o)
        IN /\ grounding_results' = r.results
           /\ log' = log \o << <<"ground", "-">> >> \o r.log
           /\ pc' = "segment"
    /\ UNCHANGED <<args, imageFile, ckpts, cfgs, florence_model, sam2_predictor, image,
                   segmentation_masks, result_path, result_image, outFiles,
                   exit_code, raised>>

\* process_image, lines 558-563: step 1 and its empty-result return.
process_image_ground ==
    /\ pc = "ground"
    /\ UNCHANGED <<hostVars, models_dir>>
    /\ \E o \in GroundOutcomes :
        LET r == florence_phrase_grounding(florence_model, o)
        IN /\ grounding_results' = r.results
           /\ IF r.results = <<>>
              THEN /\ log' = log \o << <<"ground", "-">> >> \o r.log
                               \o << <<"no_objects", "-">> >>
                   /\ pc' = "return"
              ELSE /\ log' = log \o << <<"ground", "-">> >> \o r.log
                   /\ pc' = "segment"
    /\ UNCHANGED <<args, imageFile, ckpts, cfgs, florence_model, sam2_predictor, image,
                   segmentation_masks, result_path, result_image, outFiles,
                   exit_code, raised>>

\* bboxes = [result["bbox"] for result in grounding_results]
bboxes_of(results) == [i \in 1..Len(results) |-> results[i].bbox]

\* A step 2 that lacks the empty-result return and always goes on to step 3.
process_image_segment_no_return ==
    /\ pc = "segment"
    /\ UNCHANGED <<hostVars, models_dir>>
    /\ LET bboxes == bboxes_of(grounding_results)
       IN \E o \in SegOutcomes(Len(bboxes)) :
           LET r == sam2_segmentation(sam2_predictor, bboxes, o)
           IN /\ segmentation_masks' = r.masks
              /\ log' = log \o << <<"segment", "-">> >> \o r.log
              /\ pc' = "composite"
    /\ UNCHANGED <<args, imageFile, ckpts, cfgs, florence_model, sam2_predictor, image,
                   grounding_results, result_path, result_image, outFiles,
                   exit_code, raised>>

\* process_image, lines 565-573: step 2 and its empty-result return.
process_image_segment ==
    /\ pc = "segment"
    /\ UNCHANGED <<hostVars, models_dir>>
    /\ LET bboxes == bboxes_of(grounding_results)
       IN \E o \in SegOutcomes(Len(bboxes)) :
           LET r == sam2_segmentation(sam2_predictor, bboxes, o)
           IN /\ segmentation_masks' = r.masks
              /\ IF r.masks = <<>>
                 THEN /\ log' = log \o << <<"segment", "-">> >> \o r.log
                                  \o << <<"no_masks", "-">> >>
                      /\ pc' = "return"
                 ELSE /\ log' = log \o << <<"segment", "-">> >> \o r.log
                      /\ pc' = "composite"
    /\ UNCHANGED <<args, imageFile, ckpts, cfgs, florence_model, sam2_predictor, image,
                   grounding_results, result_path, result_image, outFiles,
                   exit_code, raised>>

\* The two counts of the summary, lines 600-601.
summary == [found |-> Len(grounding_results), generated |-> Len(segmentation_masks)]

\* A step 3 that lets the failure of the compositing call reach main().
process_image_output_reraise ==
    /\ pc = "composite"
    /\ UNCHANGED <<hostVars, models_dir>>
    /\ \E ioOk \in BOOLEAN :
        LET r == step3_composite(Get(image), segmentation_masks, args.image_path,
                                 args.output_path, output_type_of(args), ioOk)
        IN /\ result_path' = r.result
           /\ result_image' = r.out
           /\ outFiles' = outFiles \o r.file
           /\ log' = log \o << <<"composite", output_type_of(args)>> >>
                        \o (IF IsNone(r.result) THEN << <<"composite_error", "-">> >>
                            ELSE << <<"completed", summary>> >>)
           /\ IF IsNone(r.result)
              THEN pc' = "exited" /\ raised' = "Exception" /\ exit_code' = Some(1)
              ELSE pc' = "return" /\ UNCHANGED <<raised, exit_code>>
    /\ UNCHANGED <<args, imageFile, ckpts, cfgs, florence_model, sam2_predictor, image,
                   grounding_results, segmentation_masks>>

\* process_image, lines 575-603: step 3, the compositing call and the summary.
process_image_output ==
    /\ pc = "composite"
    /\ UNCHANGED <<hostVars, models_dir>>
    /\ \E ioOk \in BOOLEAN :
        LET r == step3_composite(Get(image), segmentation_masks, args.image_path,
                                 args.output_path, output_type_of(args), ioOk)
        IN /\ result_path' = r.result
           /\ result_image' = r.out
           /\ outFiles' = outFiles \o r.file
           /\ log' = log \o << <<"composite", output_type_of(args)>> >>
                        \o (IF IsNone(r.result) THEN << <<"composite_error", "-">> >>
                            ELSE << <<"completed", summary>> >>)
    /\ pc' = "return"
    /\ UNCHANGED <<args, imageFile, ckpts, cfgs, florence_model, sam2_predictor, image,
                   grounding_results, segmentation_masks, exit_code, raised>>

\* A main() that reports a run without an output file as a failure.
main_return_status ==
    /\ pc = "return"
    /\ UNCHANGED <<hostVars, models_dir>>
    /\ pc' = "exited"
    /\ exit_code' = (IF outFiles = <<>> THEN Some(1) ELSE Some(0))
    /\ UNCHANGED <<args, imageFile, ckpts, cfgs, florence_model, sam2_predictor, image,
                   grounding_results, segmentation_masks, result_path, result_image,
                   outFiles, raised, log>>

\* main(), after process_image returned: the interpreter exits with status 0.
main_return ==
    /\ pc = "return"
    /\ UNCHANGED <<hostVars, models_dir>>
    /\ pc' = "exited"
    /\ exit_code' = Some(0)
    /\ UNCHANGED <<args, imageFile, ckpts, cfgs, florence_model, sam2_predictor, image,
                   grounding_results, segmentation_masks, result_path, result_image,
                   outFiles, raised, log>>

\* main(), lines 699-701: KeyboardInterrupt raised anywhere inside the try
\* block passes every "except Exception" and exits 0.
keyboard_interrupt ==
    /\ pc \in TryPcs
    /\ UNCHANGED <<hostVars, models_dir>>
    /\ pc' = "exited"
    /\ raised' = "KeyboardInterrupt"
    /\ exit_code' = Some(0)
    /\ log' = Append(log, <<"interrupted", "-">>)
    /\ UNCHANGED <<args, imageFile, ckpts, cfgs, florence_model, sam2_predictor, image,
                   grounding_results, segmentation_masks, result_path, result_image,
                   outFiles>>

\* ------------------------------------------------------------- host
\* Segmentation runs the user starts in one session of the host application.
MaxRuns == 2

OutputTypes == {"overlay", "cutout"}

\* get_temp_output_path(output_type): one fixed file per output type.
get_temp_output_path(output_type) ==
    IF output_type = "cutout" THEN "krita_segment_output.png"
    ELSE "krita_segment_output.jpg"

TempOutputs == {get_temp_output_path(t) : t \in OutputTypes}

\* start_processing() and stop_processing(): what they leave on the widgets.
start_processing == [run_button |-> FALSE, cancel_button |-> TRUE, progress_bar |-> TRUE]
stop_processing == [run_button |-> TRUE, cancel_button |-> FALSE, progress_bar |-> FALSE]

\* SegmentSection.__init__ with setup_ui: no worker, Run enabled, Cancel
\* disabled, progress bar hidden.
SegmentSection_init ==
    /\ workers = <<>>
    /\ worker_thread = 0
    /\ ui = [run_button |-> TRUE, cancel_button |-> FALSE, progress_bar |-> FALSE]
    /\ tempFiles = {}
    /\ queue = <<>>

\* SegmentationWorker.__init__ followed by start(): the thread is at the top
\* of run(), no child process yet (process is a local variable of run()).
SegmentationWorker(output_type) ==
    [pc |-> "start",
     output_type |-> output_type,
     output_path |-> get_temp_output_path(output_type),
     process |-> "none",
     returncode |-> None,
     wrote |-> FALSE,
     signals |-> <<>>]

\* QThread.isRunning(): run() has not returned and the thread was not killed.
isRunning(w) == w.pc \in {"start", "read", "poll"}

\* Worker w emits its signals sigs: they are queued for the GUI thread.
emit(w, sigs) ==
    /\ queue' = queue \o [i \in 1..Len(sigs) |->
                            [worker |-> w, signal |-> sigs[i],
                             output_path |-> workers[w].output_path]]

\* run_segmentation(), started by the Run button or by Enter in the prompt
\* field (the field is never disabled).  ready: a document is open and the
\* prompt is not empty; exportOk: the document was saved as the input file;
\* startOk: nothing raised between start_processing() and start().
run_segmentation ==
    /\ Len(workers) < MaxRuns
    /\ \E trigger \in {"button", "enter"}, ready \in BOOLEAN, exportOk \in BOOLEAN,
          startOk \in BOOLEAN, output_type \in OutputTypes :
        /\ trigger = "button" => ui.run_button
        /\ IF ~ready \/ ~exportOk
           THEN UNCHANGED <<workers, worker_thread, ui>>
           ELSE IF ~startOk
           THEN /\ ui' = stop_processing
                /\ UNCHANGED <<workers, worker_thread>>
           ELSE /\ ui' = start_processing
                /\ workers' = Append(workers, SegmentationWorker(output_type))
                /\ worker_thread' = Len(workers) + 1
    /\ UNCHANGED <<tempFiles, queue>>
    /\ UNCHANGED pipelineVars

\* SegmentationWorker.run(), lines 69-113: validate_paths() and Popen.
\* path_errors: how many of the two configured paths are missing.
worker_start(w) ==
    /\ workers[w].pc = "start"
    /\ \E path_errors \in 0..2, popenOk \in BOOLEAN :
        IF path_errors > 0
        THEN /\ workers' = [workers EXCEPT
                               ![w].pc = "done",
                               ![w].signals = @ \o [i \in 1..path_errors |-> "error"]]
             /\ emit(w, [i \in 1..path_errors |-> "error"])
        ELSE IF ~popenOk
        THEN /\ workers' = [workers EXCEPT ![w].pc = "done",
                                           ![w].signals = Append(@, "error")]
             /\ emit(w, <<"error">>)
        ELSE /\ workers' = [workers EXCEPT ![w].pc = "read", ![w].process = "running"]
             /\ UNCHANGED queue
    /\ UNCHANGED <<worker_thread, ui, tempFiles>>
    /\ UNCHANGED pipelineVars

\* SegmentationWorker.run(), lines 115-121: the readline loop.  It ends when
\* the child has exited and its output is read; a readline that raises (a
\* line that cannot be decoded) goes to the handler at line 141.
worker_read(w) ==
    /\ workers[w].pc = "read"
    /\ \E raises \in BOOLEAN :
        IF raises
        THEN /\ workers' = [workers EXCEPT ![w].pc = "done",
                                           ![w].signals = Append(@, "error")]
             /\ emit(w, <<"error">>)
        ELSE /\ workers[w].process = "exited"
             /\ workers' = [workers EXCEPT ![w].pc = "poll"]
             /\ UNCHANGED queue
    /\ UNCHANGED <<worker_thread, ui, tempFiles>>
    /\ UNCHANGED pipelineVars

\* A worker that reports every run whose child exited with status 0 as
\* finished, without looking for the output file.
worker_poll_ignores_file(w) ==
    /\ workers[w].pc = "poll"
    /\ LET sig == IF Get(workers[w].returncode) = 0 THEN "finished" ELSE "error"
       IN /\ workers' = [workers EXCEPT ![w].pc = "done",
                                        ![w].signals = Append(@, sig)]
          /\ emit(w, <<sig>>)
    /\ UNCHANGED <<worker_thread, ui, tempFiles>>
    /\ UNCHANGED pipelineVars

\* SegmentationWorker.run(), lines 123-139: the exit status of the child and
\* the existence of the output file decide between finished and error.
worker_poll(w) ==
    /\ workers[w].pc = "poll"
    /\ LET sig == IF Get(workers[w].returncode) = 0
                     /\ workers[w].output_path \in tempFiles
                  THEN "finished" ELSE "error"
       IN /\ workers' = [workers EXCEPT ![w].pc = "done",
                                        ![w].signals = Append(@, sig)]
          /\ emit(w, <<sig>>)
    /\ UNCHANGED <<worker_thread, ui, tempFiles>>
    /\ UNCHANGED pipelineVars

\* The child of worker w, the pipeline script run on output_path, saves its
\* composite: image.save(output_path) of the compositing call.
child_write_output(w) ==
    /\ workers[w].process = "running"
    /\ ~workers[w].wrote
    /\ workers' = [workers EXCEPT ![w].wrote = TRUE]
    /\ tempFiles' = tempFiles \cup {workers[w].output_path}
    /\ UNCHANGED <<worker_thread, ui, queue>>
    /\ UNCHANGED pipelineVars

\* The child of worker w exits: status 1 from main() before anything was
\* written, status 0 after process_image returned, with or without a file.
child_exit(w) ==
    /\ workers[w].process = "running"
    /\ \E code \in (IF workers[w].wrote THEN {0} ELSE {0, 1}) :
        workers' = [workers EXCEPT ![w].process = "exited",
                                   ![w].returncode = Some(code)]
    /\ UNCHANGED <<worker_thread, ui, tempFiles, queue>>
    /\ UNCHANGED pipelineVars

\* on_segmentation_finished(output_path), run by the GUI thread for a queued
\* finished signal.  The result file is removed only after the layer was
\* added; every earlier return and the exception handler leave it in place.
on_segmentation_finished ==
    /\ queue # <<>>
    /\ Head(queue).signal = "finished"
    /\ queue' = Tail(queue)
    /\ ui' = stop_processing
    /\ \E outcome \in {"no_document", "null_image", "layer_error", "added"},
          removeOk \in BOOLEAN :
        /\ outcome \in {"layer_error", "added"} => Head(queue).output_path \in tempFiles
        /\ tempFiles' = IF outcome = "added" /\ removeOk
                        THEN tempFiles \ {Head(queue).output_path}
                        ELSE tempFiles
    /\ UNCHANGED <<workers, worker_thread>>
    /\ UNCHANGED pipelineVars

\* on_segmentation_error(error_message), run by the GUI thread for a queued
\* error signal.
on_segmentation_error ==
    /\ queue # <<>>
    /\ Head(queue).signal = "error"
    /\ queue' = Tail(queue)
    /\ ui' = stop_processing
    /\ UNCHANGED <<workers, worker_thread, tempFiles>>
    /\ UNCHANGED pipelineVars

\* cancel_segmentation(), from the Cancel button: the worker thread is
\* terminated and waited for.  The child process is referenced only by the
\* local variable of run() and is not touched.
cancel_segmentation ==
    /\ ui.cancel_button
    /\ IF worker_thread # 0 /\ isRunning(workers[worker_thread])
       THEN /\ workers' = [workers EXCEPT ![worker_thread].pc = "terminated"]
            /\ ui' = stop_processing
       ELSE UNCHANGED <<workers, ui>>
    /\ UNCHANGED <<worker_thread, tempFiles, queue>>
    /\ UNCHANGED pipelineVars

\* The segmentation section after construction; the temporary directory may
\* hold an output file of an earlier session.
InitHost ==
    /\ workers = <<>>
    /\ worker_thread = 0
    /\ ui = [run_button |-> TRUE, cancel_button |-> FALSE, progress_bar |-> FALSE]
    /\ tempFiles \in SUBSET TempOutputs
    /\ queue = <<>>
    /\ pc = "host"
    /\ args = [image_path |-> PhotoJpg, output_path |-> None,
               cutout |-> FALSE, model |-> "base_plus", models_dir |-> None]
    /\ imageFile = None
    /\ ckpts = {}
    /\ cfgs = {}
    /\ models_dir = None
    /\ florence_model = FALSE
    /\ sam2_predictor = None
    /\ image = None
    /\ grounding_results = <<>>
    /\ segmentation_masks = <<>>
    /\ result_path = None
    /\ result_image = None
    /\ outFiles = <<>>
    /\ exit_code = None
    /\ raised = "none"
    /\ log = <<>>

NextHost ==
    \/ run_segmentation
    \/ \E w \in 1..Len(workers) : worker_start(w)
    \/ \E w \in 1..Len(workers) : worker_read(w)
    \/ \E w \in 1..Len(workers) : worker_poll(w)
    \/ \E w \in 1..Len(workers) : child_write_output(w)
    \/ \E w \in 1..Len(workers) : child_exit(w)
    \/ on_segmentation_finished
    \/ on_segmentation_error
    \/ cancel_segmentation

SpecHost == InitHost /\ [][NextHost]_vars

\* ------------------------------------------------------------- specification
\* One run of the command line, from parsed arguments to exit.
Init ==
    /\ SegmentSection_init
    /\ pc = "main"
    /\ args \in [image_path : {PhotoJpg},
                 output_path : {None, Some(OutJpg), Some(OutPng), Some(<<"out">>)},
                 cutout : BOOLEAN,
                 model : Range(Variants),
                 models_dir : {None}]
    /\ imageFile \in {None} \cup {Some(FileImage(m)) : m \in {"RGB", "RGBA"}}
    /\ ckpts \in SUBSET {checkpoint_path(v) : v \in Range(Variants)}
    /\ cfgs \in SUBSET Range(Variants)
    /\ models_dir = None
    /\ florence_model = FALSE
    /\ sam2_predictor = None
    /\ image = None
    /\ grounding_results = <<>>
    /\ segmentation_masks = <<>>
    /\ result_path = None
    /\ result_image = None
    /\ outFiles = <<>>
    /\ exit_code = None
    /\ raised = "none"
    /\ log = <<>>

Next ==
    \/ main_validate
    \/ pipeline_init
    \/ process_image_open
    \/ process_image_ground
    \/ process_image_segment
    \/ process_image_output
    \/ main_return
    \/ keyboard_interrupt

Spec == Init /\ [][Next]_vars

\* ------------------------------------------------------------- path runs
\* Step 3 of process_image for every input path and requested output path:
\* the runs start where process_image stands after a successful segmentation.
Paths == SeqsUpTo(PathAtoms \cup {"out"}, MaxPathLen)

\* Paths that can name an image file: the last component is a file name.
ImagePaths == {p \in Paths : basename(p) \notin {<<>>, <<".">>, <<".", ".">>}}

AllVariants == Range(Variants)
OneBoxOutcome ==
    [pre |-> "ok", gen |-> "ok", post |-> "ok", bboxes |-> <<"boxA">>,
     labels |-> <<"label">>]
OneMaskOutcome ==
    [set_image_ok |-> TRUE, fail_at |-> 0, masks |-> <<[i \in 1..NPix |-> 1]>>]

\* The log of a run that loaded both models and segmented one box.
SegmentedLog ==
    << <<"models_directory", "default">> >>
    \o load_models("base_plus", [standard |-> "ok", fallback |-> "unused"], TRUE,
                   AllVariants, AllVariants, [v \in AllVariants |-> "ok"]).log
    \o << <<"loaded_image", "-">>, <<"ground", "-">> >>
    \o florence_phrase_grounding(TRUE, OneBoxOutcome).log
    \o << <<"segment", "-">> >>
    \o sam2_segmentation(Some("base_plus"), <<"boxA">>, OneMaskOutcome).log

InitPath ==
    /\ SegmentSection_init
    /\ pc = "composite"
    /\ args \in [image_path : ImagePaths, output_path : {None},
                 cutout : BOOLEAN, model : {"base_plus"}, models_dir : {None}]
            \cup [image_path : {PhotoJpg, <<"png", "/", "photo">>},
                  output_path : {Some(p) : p \in Paths},
                  cutout : BOOLEAN, model : {"base_plus"}, models_dir : {None}]
    /\ imageFile = Some(FileImage("RGB"))
    /\ ckpts = {checkpoint_path(v) : v \in AllVariants}
    /\ cfgs = AllVariants
    /\ models_dir = Some(init_models_dir)
    /\ florence_model = TRUE
    /\ sam2_predictor = Some("base_plus")
    /\ image = Some(convert_RGB(FileImage("RGB")))
    /\ grounding_results = florence_phrase_grounding(TRUE, OneBoxOutcome).results
    /\ segmentation_masks =
          sam2_segmentation(Some("base_plus"), <<"boxA">>, OneMaskOutcome).masks
    /\ result_path = None
    /\ result_image = None
    /\ outFiles = <<>>
    /\ exit_code = None
    /\ raised = "none"
    /\ log = SegmentedLog

NextPath ==
    \/ process_image_output
    \/ main_return

SpecPath == InitPath /\ [][NextPath]_vars

\* ------------------------------------------------------------- compositing runs
\* The two compositing methods called directly (the module is importable) on
\* any image and mask list.
SamplePixels(mode) ==
    IF mode = "RGBA" THEN {<<0, 0, 0, 0>>, <<10, 20, 30, 128>>}
    ELSE {<<255, 255, 255>>, <<10, 20, 30>>, <<254, 1, 0>>}

SampleImages ==
    {[mode |-> m, px |-> px] : m \in {"RGB"}, px \in [1..NPix -> SamplePixels("RGB")]}
    \cup {[mode |-> m, px |-> px] : m \in {"RGBA"}, px \in [1..NPix -> SamplePixels("RGBA")]}

\* RGB images in which every channel takes every uint8 value as v runs.
RampImages ==
    {[mode |-> "RGB",
      px |-> [i \in 1..NPix |->
                <<(v + i - 1) % 256, (v + i + 84) % 256, (255 - v + i) % 256>>]] :
        v \in 0..255}

MaskLists ==
    {[i \in 1..Len(q) |-> [mask |-> q[i], bbox |-> "boxA"]] :
        q \in SeqsUpTo(AllMasks, MaxMasks)}

InitComposite ==
    /\ SegmentSection_init
    /\ pc = "api"
    /\ args = [image_path |-> PhotoJpg, output_path |-> Some(OutPng),
               cutout |-> FALSE, model |-> "base_plus", models_dir |-> None]
    /\ imageFile = None
    /\ ckpts = {checkpoint_path(v) : v \in AllVariants}
    /\ cfgs = AllVariants
    /\ models_dir = Some(init_models_dir)
    /\ florence_model = TRUE
    /\ sam2_predictor = Some("base_plus")
    /\ image \in {Some(img) : img \in SampleImages \cup RampImages}
    /\ grounding_results = <<>>
    /\ segmentation_masks \in MaskLists
    /\ result_path = None
    /\ result_image = None
    /\ outFiles = <<>>
    /\ exit_code = None
    /\ raised = "none"
    /\ log = <<>>

\* pipeline.create_red_mask_overlay(image, masks, output_path)
api_create_red_mask_overlay ==
    /\ pc = "api"
    /\ UNCHANGED <<hostVars, models_dir>>
    /\ \E ioOk \in BOOLEAN :
        LET r == create_red_mask_overlay(Get(image), segmentation_masks,
                                         Get(args.output_path), ioOk)
        IN /\ result_path' = r.result
           /\ result_image' = r.out
           /\ outFiles' = outFiles \o r.file
    /\ log' = Append(log, <<"composite", "overlay">>)
    /\ pc' = "api_done"
    /\ UNCHANGED <<args, imageFile, ckpts, cfgs, florence_model, sam2_predictor, image,
                   grounding_results, segmentation_masks, exit_code, raised>>

\* pipeline.create_transparent_cutout(image, masks, output_path)
api_create_transparent_cutout ==
    /\ pc = "api"
    /\ UNCHANGED <<hostVars, models_dir>>
    /\ \E ioOk \in BOOLEAN :
        LET r == create_transparent_cutout(Get(image), segmentation_masks,
                                           Get(args.output_path), ioOk)
        IN /\ result_path' = r.result
           /\ result_image' = r.out
           /\ outFiles' = outFiles \o r.file
    /\ log' = Append(log, <<"composite", "cutout">>)
    /\ pc' = "api_done"
    /\ UNCHANGED <<args, imageFile, ckpts, cfgs, florence_model, sam2_predictor, image,
                   grounding_results, segmentation_masks, exit_code, raised>>

NextComposite ==
    \/ api_create_red_mask_overlay
    \/ api_create_transparent_cutout

SpecComposite == InitComposite /\ [][NextComposite]_vars

\* ------------------------------------------------------------- model directory runs
\* Runs of the command line with and without --models-dir, over every set of
\* checkpoint files in the script's models directory and in the named one.
InitModelsDir ==
    /\ SegmentSection_init
    /\ pc = "main"
    /\ args \in [image_path : {PhotoJpg}, output_path : {None}, cutout : {FALSE},
                 model : Range(Variants), models_dir : {None, Some(OptionDir)}]
    /\ imageFile \in {None, Some(FileImage("RGB"))}
    /\ ckpts \in SUBSET ({checkpoint_path(v) : v \in Range(Variants)}
                         \cup {join(OptionDir, CheckpointFile[v]) : v \in Range(Variants)})
    /\ cfgs \in SUBSET Range(Variants)
    /\ models_dir = None
    /\ florence_model = FALSE
    /\ sam2_predictor = None
    /\ image = None
    /\ grounding_results = <<>>
    /\ segmentation_masks = <<>>
    /\ result_path = None
    /\ result_image = None
    /\ outFiles = <<>>
    /\ exit_code = None
    /\ raised = "none"
    /\ log = <<>>

SpecModelsDir == InitModelsDir /\ [][Next]_vars

\* The directory "models" next to the pipeline script.
ModelsNextToScript == <<"/", "plugin", "/", "models">>

LoadedFlorence == [standard |-> "ok", fallback |-> "unused"]
FailedFlorence == [standard |-> "raises", fallback |-> "raises"]

InitRequest ==
    /\ SegmentSection_init
    /\ pc = "process_image"
    /\ args \in [image_path : {PhotoJpg}, output_path : {None, Some(OutPng)},
                 cutout : BOOLEAN, model : {"base_plus"}, models_dir : {None}]
    /\ imageFile = Some(FileImage("RGB"))
    /\ cfgs = AllVariants
    /\ models_dir = Some(init_models_dir)
    /\ \E flo \in {LoadedFlorence, FailedFlorence}, found \in {{}, AllVariants} :
          LET r == load_models("base_plus", flo, TRUE, found, AllVariants,
                               [v \in AllVariants |-> "ok"])
          IN /\ ckpts = {checkpoint_path(v) : v \in found}
             /\ florence_model = r.florence_model
             /\ sam2_predictor = r.sam2_predictor
             /\ log = << <<"models_directory", "default">> >> \o r.log
    /\ image = None
    /\ grounding_results = <<>>
    /\ segmentation_masks = <<>>
    /\ result_path = None
    /\ result_image = None
    /\ outFiles = <<>>
    /\ exit_code = None
    /\ raised = "none"

NextRequest ==
    \/ process_image_open
    \/ process_image_ground
    \/ process_image_segment
    \/ process_image_output
    \/ main_return
    \/ keyboard_interrupt

SpecRequest == InitRequest /\ [][NextRequest]_vars

\* ------------------------------------------------------------- properties
\* The one file a run wrote, the boxes handed to segmentation, and the boxes
\* of the predict calls made, in call order.
WrittenFile == outFiles[1]
PassedBoxes == [i \in 1..Len(grounding_results) |-> grounding_results[i].bbox]
PredictLog == SelectSeq(log, LAMBDA e : e[1] = "predict")
PredictedBoxes == LET calls == PredictLog IN [i \in 1..Len(calls) |-> calls[i][2].box]
GroundingCalled == "ground" \in Events(log)
SegmentationCalled == "segment" \in Events(log)
SegmentationRaised == "segmentation_error" \in Events(log)

\* The input file was absent when main() validated it (it was never seen and
\* then removed).
MissingAtValidation == IsNone(imageFile) /\ "image_not_found" \notin Events(log)

\* C1: once the grounding stage has returned zero bounding boxes, whatever the
\* reason, the segmentation stage is never invoked (no call, no set_image, no
\* predict), no compositing happens and no output file is written.
ThmC1 ==
    (GroundingCalled /\ grounding_results = <<>>)
        => /\ Events(log) \cap {"segment", "set_image", "predict", "composite"} = {}
           /\ outFiles = <<>>
           /\ IsNone(result_path)
           /\ pc \in {"return", "exited"}

\* C1 witness: a loaded grounding model found nothing and the run ended.
WitC1 ==
    /\ pc = "exited"
    /\ florence_model
    /\ "found" \in Events(log)
    /\ "no_objects" \in Events(log)
    /\ grounding_results = <<>>

\* C2: after sam2_segmentation returned, its result has one mask per input box
\* in input order (mask i carries box i, and predict call i was given box i)
\* when the predictor is available and nothing raised, and is empty otherwise.
ThmC2 ==
    SegmentationCalled
        => IF ~IsNone(sam2_predictor) /\ ~SegmentationRaised
           THEN /\ Len(segmentation_masks) = Len(PassedBoxes)
                /\ \A i \in 1..Len(PassedBoxes) :
                      segmentation_masks[i].bbox = PassedBoxes[i]
                /\ PredictedBoxes = PassedBoxes
           ELSE Len(segmentation_masks) = 0

\* C2 witness: two different boxes gave two masks, in the same order.
WitC2 ==
    /\ SegmentationCalled
    /\ PassedBoxes = <<"boxA", "boxB">>
    /\ Len(segmentation_masks) = 2
    /\ segmentation_masks[1].bbox = "boxA"
    /\ segmentation_masks[2].bbox = "boxB"
    /\ segmentation_masks[1].mask # segmentation_masks[2].mask

\* C3 as stated: when predict raised on one box of several, the masks of the
\* other boxes are still returned.
CexC3 ==
    (SegmentationCalled /\ SegmentationRaised /\ Len(PredictLog) >= 1
     /\ Len(PassedBoxes) >= 2)
        => segmentation_masks # <<>>

\* C3 amended: the segmentation stage returns either one mask per box or no
\* mask at all, never a part of the list; when a call raised on any box the
\* result is empty, the boxes after it were not tried, and the request ends
\* without an output file.
ThmC3 ==
    SegmentationCalled
        => /\ Len(segmentation_masks) \in {0, Len(PassedBoxes)}
           /\ SegmentationRaised
                 => /\ segmentation_masks = <<>>
                    /\ Len(PredictLog) <= Len(PassedBoxes)
                    /\ outFiles = <<>>
                    /\ pc \in {"return", "exited"}

\* C3 witness: predict worked for the first of two boxes and raised for the
\* second; the first mask is gone with the rest.
WitC3 ==
    /\ SegmentationRaised
    /\ Len(PassedBoxes) = 2
    /\ Len(PredictLog) = 2
    /\ segmentation_masks = <<>>
    /\ pc = "return"

\* The direct compositing call that was made, its inputs and its result.
CalledCutout == pc = "api_done" /\ <<"composite", "cutout">> \in Range(log)
CalledOverlay == pc = "api_done" /\ <<"composite", "overlay">> \in Range(log)
Source == Get(image)
Output == Get(result_image)
InUnion(i) == \E m \in 1..Len(segmentation_masks) : segmentation_masks[m].mask[i] = 1

\* C4: in the image a cutout call produced, every pixel has alpha 255 when it
\* is set in at least one input mask and alpha 0 when it is set in none, and
\* its R, G, B equal the source image's R, G, B, inside and outside the union;
\* the image saved is that image.
ThmC4 ==
    (CalledCutout /\ ~IsNone(result_image))
        => /\ Len(Output.px) = Len(Source.px)
           /\ \A i \in 1..Len(Source.px) :
                /\ Len(Output.px[i]) = 4
                /\ Output.px[i][4] = (IF InUnion(i) THEN 255 ELSE 0)
                /\ \A ch \in 1..3 : Output.px[i][ch] = Source.px[i][ch]
           /\ WrittenFile.image = Output

\* C4 witness: a cutout of an RGBA source with two masks, where one pixel is
\* only in the second mask and another pixel is in neither.
WitC4 ==
    /\ CalledCutout
    /\ ~IsNone(result_image)
    /\ Source.mode = "RGBA"
    /\ Len(segmentation_masks) = 2
    /\ \E i \in 1..NPix :
          /\ segmentation_masks[1].mask[i] = 0
          /\ segmentation_masks[2].mask[i] = 1
          /\ Source.px[i][4] = 128
          /\ Output.px[i][4] = 255
    /\ \E i \in 1..NPix : ~InUnion(i) /\ Output.px[i][4] = 0

\* Python's round() of n / 2: to the nearest integer, a half to the even one.
RoundHalf(n) ==
    LET q == n \div 2
    IN IF n % 2 = 0 \/ q % 2 = 0 THEN q ELSE q + 1

\* C5 as stated: in an overlay with a single mask every channel of a pixel
\* inside the mask is round(source * 0.5 + c * 0.5), c = 255, 0, 0.
CexC5 ==
    (CalledOverlay /\ ~IsNone(result_image) /\ Len(segmentation_masks) = 1)
        => \A i \in 1..Len(Source.px) :
              segmentation_masks[1].mask[i] = 1
                  => \A ch \in 1..3 :
                        Output.px[i][ch]
                            = RoundHalf(Source.px[i][ch] + <<255, 0, 0>>[ch])

\* C5 amended: in an overlay with a single mask every channel of a pixel inside
\* the mask is floor(source * 0.5 + c * 0.5), c = 255, 0, 0: the fraction is
\* dropped, not rounded (source 0 gives red 127, not 128).
ThmC5 ==
    (CalledOverlay /\ ~IsNone(result_image) /\ Len(segmentation_masks) = 1)
        => \A i \in 1..Len(Source.px) :
              segmentation_masks[1].mask[i] = 1
                  => \A ch \in 1..3 :
                        /\ 2 * Output.px[i][ch] <= Source.px[i][ch] + <<255, 0, 0>>[ch]
                        /\ Source.px[i][ch] + <<255, 0, 0>>[ch] < 2 * Output.px[i][ch] + 2

\* C5 witness: a masked pixel whose red is 0 and whose green is odd; the
\* overlay stores red 127 and drops the half of green.
WitC5 ==
    /\ CalledOverlay
    /\ ~IsNone(result_image)
    /\ Len(segmentation_masks) = 1
    /\ \E i \in 1..NPix :
          /\ segmentation_masks[1].mask[i] = 1
          /\ Source.px[i][1] = 0
          /\ Output.px[i][1] = 127
          /\ Source.px[i][2] % 2 = 1
          /\ 2 * Output.px[i][2] = Source.px[i][2] - 1

\* C6 as stated: the file an overlay run writes has as many channels as the
\* input image file.
CexC6 ==
    (outFiles # <<>> /\ ~args.cutout /\ ~IsNone(imageFile))
        => Len(WrittenFile.image.px[1]) = Len(Get(imageFile).px[1])

\* C6 amended: the file an overlay run writes always has 3 channels, whether
\* the input file has 3 or 4 (process_image converts it to RGB on loading);
\* the file a cutout run writes always has 4 channels.
ThmC6 ==
    outFiles # <<>>
        => \A i \in 1..NPix :
              Len(WrittenFile.image.px[i]) = (IF args.cutout THEN 4 ELSE 3)

\* C6 witness: an overlay run on a 4-channel input file wrote a 3-channel file.
WitC6 ==
    /\ outFiles # <<>>
    /\ ~args.cutout
    /\ ~IsNone(imageFile)
    /\ Len(Get(imageFile).px[1]) = 4
    /\ Len(WrittenFile.image.px[1]) = 3

\* What "the extension of a path" means, stated without splitext: path p
\* splits after k atoms into a root and an extension when the rest is empty or
\* is a dot followed by atoms that are neither dots nor separators, the rest
\* is as long as it can be, and something other than dots precedes it in the
\* last component.
CompStart(p) ==
    CHOOSE s \in 0..Len(p) :
        /\ s = 0 \/ p[s] = "/"
        /\ \A j \in (s + 1)..Len(p) : p[j] # "/"
IsExtension(e) ==
    \/ e = <<>>
    \/ /\ e[1] = "."
       /\ \A k \in 2..Len(e) : e[k] \notin {".", "/"}
HasExtensionDot(p) ==
    \E j \in (CompStart(p) + 1)..Len(p) :
        /\ p[j] = "."
        /\ \E i \in (CompStart(p) + 1)..(j - 1) : p[i] # "."
SplitsAt(p, k) ==
    LET ext == SubSeq(p, k + 1, Len(p))
    IN /\ k >= CompStart(p)
       /\ IsExtension(ext)
       /\ ext = <<>> => ~HasExtensionDot(p)
       /\ ext # <<>> => \E i \in (CompStart(p) + 1)..k : p[i] # "."

\* The directory part of p as a prefix to put before a file name: nothing
\* when p has no directory, the separators alone when the directory is the
\* root, else the directory without its trailing separators and one separator.
DirPrefix(p) ==
    LET d == SubSeq(p, 1, CompStart(p))
    IN IF \A k \in 1..Len(d) : d[k] = "/" THEN d
       ELSE SubSeq(d, 1, CHOOSE n \in 1..Len(d) :
                           /\ d[n] # "/"
                           /\ \A j \in (n + 1)..Len(d) : d[j] = "/") \o <<"/">>

\* The caller gave no output path (argparse leaves None; an empty string is
\* no path either).
Omitted == IsNone(args.output_path) \/ Get(args.output_path) = <<>>
Suffix == IF args.cutout THEN <<"_cutout", ".", "png">> ELSE <<"_mask", ".", "jpg">>

\* C7: when the output path is omitted, the file is written to the input's
\* directory, under the input's base name without its extension followed by
\* "_mask.jpg" (overlay) or "_cutout.png" (cutout), so photo.jpg gives
\* photo_mask.jpg and photo_cutout.png; when a path is supplied, the file is
\* written to it (for a cutout, to it or to it with a .png extension) and to
\* no path derived from the input path.
ThmC7 ==
    outFiles # <<>>
        => LET ip == args.image_path
               name == SubSeq(ip, CompStart(ip) + 1, Len(ip))
           IN IF Omitted
              THEN /\ \E k \in CompStart(ip)..Len(ip) :
                        /\ SplitsAt(ip, k)
                        /\ WrittenFile.path
                              = DirPrefix(ip) \o SubSeq(ip, CompStart(ip) + 1, k) \o Suffix
                   /\ ip = <<"photo", ".", "jpg">>
                         => WrittenFile.path = <<"photo">> \o Suffix
              ELSE /\ ~args.cutout => WrittenFile.path = Get(args.output_path)
                   /\ args.cutout
                         => \E k \in 0..Len(Get(args.output_path)) :
                               WrittenFile.path
                                  \in {Get(args.output_path),
                                       SubSeq(Get(args.output_path), 1, k)
                                           \o <<".", "png">>}

\* C7 witness: an overlay run on png/photo, without an output path, wrote
\* png/photo_mask.jpg.
WitC7 ==
    /\ outFiles # <<>>
    /\ IsNone(args.output_path)
    /\ ~args.cutout
    /\ args.image_path = <<"png", "/", "photo">>
    /\ WrittenFile.path = <<"png", "/", "photo", "_mask", ".", "jpg">>

\* C8: the file a cutout writes, which is the path it returns, ends in .png
\* whatever the case of the letters: it is the requested path when that ends
\* in .png already, and else the requested path with its extension replaced
\* by ".png"; an overlay writes to and returns exactly the requested path.
ThmC8 ==
    (outFiles # <<>> /\ ~Omitted)
        => LET req == Get(args.output_path)
               f == WrittenFile.path
           IN /\ result_path = Some(f)
              /\ Len(outFiles) = 1
              /\ ~args.cutout => f = req
              /\ args.cutout
                    => /\ Len(f) >= 2
                       /\ f[Len(f) - 1] = "."
                       /\ f[Len(f)] \in {"png", "PNG"}
                       /\ IF Len(req) >= 2 /\ req[Len(req) - 1] = "."
                             /\ req[Len(req)] \in {"png", "PNG"}
                          THEN f = req
                          ELSE \E k \in 0..Len(req) :
                                  /\ SplitsAt(req, k)
                                  /\ f = SubSeq(req, 1, k) \o <<".", "png">>

\* C8 witness: a cutout requested at out.jpg was written to out.png.
WitC8 ==
    /\ outFiles # <<>>
    /\ args.cutout
    /\ args.output_path = Some(<<"out", ".", "jpg">>)
    /\ WrittenFile.path = <<"out", ".", "png">>
    /\ result_path = Some(<<"out", ".", "png">>)

\* C9: when the input image is missing at validation, the run ends with exit
\* status 1 straight from main: no pipeline is constructed and neither model
\* is loaded.
ThmC9 ==
    MissingAtValidation
        => /\ pc = "main" \/ (pc = "exited" /\ exit_code = Some(1))
           /\ Events(log) \subseteq {"input_not_found"}
           /\ ~florence_model
           /\ IsNone(sam2_predictor)
           /\ raised = "none"

\* C9 witness: the run on a missing image has exited with status 1.
WitC9 ==
    /\ MissingAtValidation
    /\ pc = "exited"
    /\ exit_code = Some(1)
    /\ log = << <<"input_not_found", "-">> >>

CompositingRaised == "composite_error" \in Events(log)

\* C11: an exception raised by the calls of the grounding, segmentation or
\* compositing stage never leaves the stage: the stage's result is the empty
\* list (grounding, segmentation) or None (compositing), process_image returns
\* normally, main() sees no exception and the exit status is never 1.
ThmC11 ==
    LET ev == Events(log)
        grounding == ev \cap {"grounding_error", "generation_failed"} # {}
        segmentation == "segmentation_error" \in ev
        compositing == "composite_error" \in ev
    IN /\ grounding => grounding_results = <<>>
       /\ segmentation => segmentation_masks = <<>>
       /\ compositing => IsNone(result_path)
       /\ (grounding \/ segmentation \/ compositing)
             => /\ pc \in {"return", "exited"}
                /\ raised # "Exception"
                /\ exit_code \in {None, Some(0)}

\* C11 witness: saving the composite failed after both earlier stages worked;
\* the call returned None and the run ended with status 0 and no exception.
WitC11 ==
    /\ CompositingRaised
    /\ grounding_results # <<>>
    /\ segmentation_masks # <<>>
    /\ IsNone(result_path)
    /\ raised = "none"
    /\ pc = "exited"
    /\ exit_code = Some(0)

\* The signals worker w emits in the step taken.
NewSignals(w) ==
    SubSeq(workers'[w].signals, Len(workers[w].signals) + 1, Len(workers'[w].signals))

\* C12: a worker whose child exited with status 0 while no file exists at its
\* output path emits error and not finished; a worker emits finished only in
\* the step that found exit status 0 and the output file present, and emits
\* nothing else in that step.
ThmC12 ==
    [][\A w \in 1..Len(workers) :
          /\ (/\ workers[w].pc = "poll"
              /\ workers'[w].pc = "done"
              /\ workers[w].returncode = Some(0)
              /\ workers[w].output_path \notin tempFiles)
                => NewSignals(w) = <<"error">>
          /\ "finished" \in Range(NewSignals(w))
                => /\ workers[w].pc = "poll"
                   /\ workers[w].returncode = Some(0)
                   /\ workers[w].output_path \in tempFiles
                   /\ NewSignals(w) = <<"finished">>]_vars

\* C12 witness: the only run's child wrote nothing and exited with status 0,
\* no output file exists, and the worker ended with the error signal alone.
WitC12 ==
    /\ Len(workers) = 1
    /\ workers[1].pc = "done"
    /\ workers[1].returncode = Some(0)
    /\ ~workers[1].wrote
    /\ tempFiles = {}
    /\ workers[1].signals = <<"error">>

\* C13 as stated: when cancel_segmentation has terminated the worker of a run,
\* the child process launched for that run is no longer running, and from then
\* on it never writes the output file.
CexC13 ==
    [][\A w \in 1..Len(workers) :
          /\ (workers[w].pc # "terminated" /\ workers'[w].pc = "terminated")
                => workers'[w].process # "running"
          /\ workers[w].pc = "terminated"
                => workers'[w].wrote = workers[w].wrote]_vars

\* C15: when a predict call raised for some box, the segmentation stage
\* returned the empty list, the calls made are one per box from the first box
\* up to the failing one, in order (no call after the failure, none repeated),
\* and the stage did not report generated masks.
ThmC15 ==
    (SegmentationCalled /\ SegmentationRaised /\ PredictLog # <<>>)
        => /\ segmentation_masks = <<>>
           /\ Len(PredictLog) <= Len(PassedBoxes)
           /\ PredictedBoxes = SubSeq(PassedBoxes, 1, Len(PredictLog))
           /\ "generated" \notin Events(log)
           /\ \E i \in 2..(Len(log) - 1) :
                 /\ log[i] = <<"segmentation_error", "-">>
                 /\ log[i - 1] = PredictLog[Len(PredictLog)]
                 /\ log[i + 1] = <<"no_masks", "-">>

\* C15 witness: predict raised for the first of two boxes; the second box was
\* never tried, the result is empty and the run ended without a file.
WitC15 ==
    /\ SegmentationRaised
    /\ PassedBoxes = <<"boxA", "boxB">>
    /\ PredictedBoxes = <<"boxA">>
    /\ segmentation_masks = <<>>
    /\ outFiles = <<>>
    /\ pc = "exited"

\* The loader reached its candidate loop: Florence-2 was loaded and the
\* handler of the SAM2 section did not run.
CandidateLoopRan ==
    /\ \E i \in 1..Len(log) : log[i][1] = "load_sam2"
    /\ \A i \in 1..Len(log) : log[i][1] # "sam2_error"

\* The candidates whose checkpoint and config both exist, in candidate order,
\* and the candidates the loader tried to build, in the order of the tries.
ExistingCandidates ==
    LET found == checkpoints_found
    IN SelectSeq(selected_models(args.model), LAMBDA c : c \in found /\ c \in cfgs)
BuildLog == SelectSeq(log, LAMBDA e : e[1] = "build_sam2")
TriedCandidates == LET builds == BuildLog IN [i \in 1..Len(builds) |-> builds[i][2]]
BuildFailed(c) == <<"sam2_failed", c>> \in Range(log)

\* The position of variant v in the declaration order.
DeclIndex(v) == CHOOSE i \in 1..Len(Variants) : Variants[i] = v

\* The candidate list for key: the key first when it is a known variant, then
\* the other variants in declaration order; every variant in declaration
\* order when the key is unknown.
CandidateOrder(key) ==
    LET l == selected_models(key)
    IN /\ Len(l) = Len(Variants)
       /\ Range(l) = Range(Variants)
       /\ IF key \in Range(Variants)
          THEN /\ l[1] = key
               /\ \A i, j \in 2..Len(l) : i < j => DeclIndex(l[i]) < DeclIndex(l[j])
          ELSE l = Variants

\* The candidate list has that order for each known key and for an unknown one.
CandidateOrderKept == \A key \in Range(Variants) \cup {"tiny"} : CandidateOrder(key)

\* C16 as stated, for the runs that reach the candidate loop: the active
\* segmentation model is the first candidate whose checkpoint and config both
\* exist (none when no candidate has both).
CexC16 ==
    CandidateLoopRan
        => sam2_predictor = (IF ExistingCandidates = <<>> THEN None
                             ELSE Some(ExistingCandidates[1]))

\* C16 amended: the candidate list is the requested variant first and then the
\* others in declaration order.  When the candidate loop runs, the loader
\* tries the candidates whose two files exist in that order and stops at the
\* first one that builds: the active model is that candidate, every existing
\* candidate before it failed to build, and there is no active model when
\* every existing candidate failed.  When the loop does not run (both
\* Florence-2 loads failed) there is no active model.
ThmC16 ==
    /\ CandidateOrderKept
    /\ (\E i \in 1..Len(log) : log[i][1] = "load_florence")
          => LET tried == TriedCandidates
                 existing == ExistingCandidates
                 failed == {log[i][2] : i \in {j \in 1..Len(log) : log[j][1] = "sam2_failed"}}
             IN IF CandidateLoopRan
                THEN /\ tried = SubSeq(existing, 1, Len(tried))
                     /\ \A i \in 1..(Len(tried) - 1) : tried[i] \in failed
                     /\ IF IsNone(sam2_predictor)
                        THEN /\ tried = existing
                             /\ Range(tried) \subseteq failed
                        ELSE /\ tried # <<>>
                             /\ Get(sam2_predictor) = tried[Len(tried)]
                             /\ Get(sam2_predictor) \notin failed
                ELSE IsNone(sam2_predictor) /\ tried = <<>>

\* C16 witness: the files of both variants exist, the requested variant
\* "large" failed to build and the loader fell back to "base_plus".
WitC16 ==
    /\ args.model = "large"
    /\ ExistingCandidates = <<"large", "base_plus">>
    /\ TriedCandidates = <<"large", "base_plus">>
    /\ BuildFailed("large")
    /\ sam2_predictor = Some("base_plus")

\* _load_models has returned.
LoaderFinished == "load_florence" \in Events(log)

\* C17 as stated: whenever no candidate has both its checkpoint and its config
\* file, once the loader has finished the segmentation handle is unset and
\* the diagnostic listing the files found has been printed.
CexC17 ==
    (LoaderFinished /\ ExistingCandidates = <<>>)
        => /\ IsNone(sam2_predictor)
           /\ <<"sam2_all_failed", "-">> \in Range(log)

\* The fallback loads of Florence-2 that were started.
FallbackLoads == SelectSeq(log, LAMBDA e : e = <<"load_florence", "fallback">>)

\* C18 as stated: when the standard load of Florence-2 raised, the loader made
\* exactly one further attempt, and when that attempt failed too the handle
\* is unset once the loader has returned, so that a grounding call returns
\* without using the model.
CexC18 ==
    /\ Len(FallbackLoads) <= 1
    /\ <<"florence_failed", "-">> \in Range(log)
          => /\ Len(FallbackLoads) = 1
             /\ ~florence_model
             /\ GroundingCalled
                   => /\ <<"florence_not_loaded", "-">> \in Range(log)
                      /\ "processor" \notin Events(log)

\* C19 as stated: a loader whose two loads of Florence-2 both failed still
\* goes on to the segmentation model; whatever the outcome for Florence-2,
\* once the loader has finished the segmentation handle is set when some
\* candidate has both its files and no build of such a candidate raised.
CexC19 ==
    /\ <<"florence_failed", "-">> \in Range(log)
          => /\ <<"load_sam2", "-">> \in Range(log)
             /\ ExistingCandidates # <<>> => BuildLog # <<>>
    /\ (/\ LoaderFinished
        /\ ExistingCandidates # <<>>
        /\ \A c \in Range(ExistingCandidates) : ~BuildFailed(c))
          => ~IsNone(sam2_predictor)

\* The generate calls of the run's grounding call, in call order.
GenerateLog == SelectSeq(log, LAMBDA e : e[1] = "generate")

\* C20: a grounding call invokes generate at most twice.  The first call has
\* the budget of 1024 tokens; a second call is made only right after the
\* first one raised, with a budget of 100 tokens and use_cache still False;
\* and when the second call raised too, the stage returned the empty list
\* without decoding anything.
ThmC20 ==
    LET g == GenerateLog
        ev == Events(log)
    IN /\ Len(g) <= 2
       /\ Len(g) >= 1
             => /\ g[1][2].max_new_tokens = 1024
                /\ ~g[1][2].use_cache
       /\ Len(g) = 2
             => /\ g[2][2].max_new_tokens = 100
                /\ ~g[2][2].use_cache
                /\ ~g[2][2].do_sample
                /\ \E i \in 1..(Len(log) - 2) :
                      /\ log[i] = g[1]
                      /\ log[i + 1] = <<"primary_generation_error", "-">>
                      /\ log[i + 2] = g[2]
       /\ "primary_generation_error" \in ev => Len(g) = 2
       /\ "generation_failed" \in ev
             => /\ Len(g) = 2
                /\ grounding_results = <<>>
                /\ "found" \notin ev
                /\ "segment" \notin ev

\* C20 witness: the first generate call raised, the second one, with 100
\* tokens, worked, and its answer gave two boxes.
WitC20 ==
    /\ Len(GenerateLog) = 2
    /\ GenerateLog[2][2].max_new_tokens = 100
    /\ "found" \in Events(log)
    /\ Len(grounding_results) = 2
    /\ pc = "segment"

\* The library outcomes of one grounding call in which the post-processor
\* returned its two lists and florence_phrase_grounding returned results.
PostProcessed(o, results) ==
    /\ o.pre = "ok"
    /\ o.gen # "fail"
    /\ o.post = "ok"
    /\ florence_phrase_grounding(TRUE, o).results = results

ThmC22 ==
    /\ (GroundingCalled /\ ~florence_model)
          => /\ <<"florence_not_loaded", "-">> \in Range(log)
             /\ Events(log) \cap {"processor", "generate", "segment", "composite"} = {}
             /\ grounding_results = <<>>
             /\ outFiles = <<>>
             /\ IsNone(result_path)
             /\ raised # "Exception"
             /\ pc \in {"return", "exited"}
    /\ (SegmentationCalled /\ IsNone(sam2_predictor))
          => /\ <<"sam2_not_loaded", "-">> \in Range(log)
             /\ Events(log) \cap {"set_image", "predict", "composite"} = {}
             /\ segmentation_masks = <<>>
             /\ outFiles = <<>>
             /\ IsNone(result_path)
             /\ raised # "Exception"
             /\ pc \in {"return", "exited"}

\* C22 witness: grounding found two boxes, the predictor was unset, and the
\* run ended with status 0 and nothing written.
WitC22 ==
    /\ pc = "exited"
    /\ florence_model
    /\ IsNone(sam2_predictor)
    /\ Len(grounding_results) = 2
    /\ <<"sam2_not_loaded", "-">> \in Range(log)
    /\ <<"no_masks", "-">> \in Range(log)
    /\ raised = "none"
    /\ exit_code = Some(0)

\* The stages of process_image in their order, and the stage entries of the
\* log in the order they were made.
Stages == <<"loaded_image", "ground", "segment", "composite">>
StageLog == SelectSeq(log, LAMBDA e : e[1] \in Range(Stages))

\* C23: the stages entered so far are an initial part of load_image, ground,
\* segment, composite, each entered once and in that order; the grounding
\* stage is entered only with the image loaded, the segmentation stage only
\* with a non-empty grounding result, the compositing stage only with a
\* non-empty mask list; and a request writes at most one file, in its
\* compositing stage.
ThmC23 ==
    /\ Len(StageLog) <= Len(Stages)
    /\ \A i \in 1..Len(StageLog) : StageLog[i][1] = Stages[i]
    /\ "ground" \in Events(log) => ~IsNone(image)
    /\ "segment" \in Events(log) => grounding_results # <<>>
    /\ "composite" \in Events(log)
          => grounding_results # <<>> /\ segmentation_masks # <<>>
    /\ Len(outFiles) <= 1
    /\ outFiles # <<>> => "composite" \in Events(log)

\* C23 witness: a request that went through all four stages and wrote its one
\* file.
WitC23 ==
    /\ pc = "exited"
    /\ [i \in 1..Len(StageLog) |-> StageLog[i][1]] = Stages
    /\ Len(outFiles) = 1
    /\ Len(grounding_results) = 2
    /\ Len(segmentation_masks) = 2

\* The set_image calls of the run, and the positions in the log of the
\* set_image and predict calls.
SetImagePositions == {i \in 1..Len(log) : log[i][1] = "set_image"}
PredictPositions == {i \in 1..Len(log) : log[i][1] = "predict"}

\* Every segmentation call on an available predictor made one set_image call,
\* before any predict call, and every predict call had its point prompts and
\* multimask_output disabled.
SetImageOnceFirst ==
    /\ Cardinality(SetImagePositions) = 1
    /\ \A s \in SetImagePositions, p \in PredictPositions : s < p
    /\ \A i \in 1..Len(PredictLog) :
          /\ PredictLog[i][2].point_coords = "None"
          /\ PredictLog[i][2].point_labels = "None"
          /\ PredictLog[i][2].multimask_output = FALSE

\* C24 as stated: a segmentation call on an available predictor makes one
\* set_image call and then one predict call per box, in input order.
CexC24 ==
    (SegmentationCalled /\ ~IsNone(sam2_predictor))
        => /\ SetImageOnceFirst
           /\ PredictedBoxes = PassedBoxes

\* C24 amended: a segmentation call on an available predictor makes one
\* set_image call, before every predict call and never again, and then predict
\* calls for the boxes in input order, each with point prompts and
\* multimask_output disabled, one per box when nothing raises; the loop stops
\* at the first call that raises, so the boxes after it (every box, when
\* set_image raises) get no predict call.
ThmC24 ==
    (SegmentationCalled /\ ~IsNone(sam2_predictor))
        => /\ SetImageOnceFirst
           /\ Len(PredictLog) <= Len(PassedBoxes)
           /\ PredictedBoxes = SubSeq(PassedBoxes, 1, Len(PredictLog))
           /\ ~SegmentationRaised => PredictedBoxes = PassedBoxes
           /\ (SegmentationRaised /\ PredictPositions # {})
                 => \E p \in PredictPositions :
                       /\ \A q \in PredictPositions : q <= p
                       /\ log[p + 1][1] = "segmentation_error"

\* C24 witness: two different boxes, one set_image call and then the two
\* predict calls in the order of the boxes, nothing raised.
WitC24 ==
    /\ SegmentationCalled
    /\ ~SegmentationRaised
    /\ PassedBoxes = <<"boxB", "boxA">>
    /\ PredictedBoxes = <<"boxB", "boxA">>
    /\ Cardinality(SetImagePositions) = 1
    /\ Len(segmentation_masks) = 2

\* The red blend of one RGB pixel with alpha 0.5, the fraction dropped, and
\* the blend applied k times in succession.
RedBlend(p) == <<(p[1] + 255) \div 2, p[2] \div 2, p[3] \div 2>>

RECURSIVE RedBlendTimes(_, _)
RedBlendTimes(p, k) == IF k = 0 THEN p ELSE RedBlendTimes(RedBlend(p), k - 1)

\* The number of masks of the list that cover pixel i, the distance of a pixel
\* from pure red, and a list that holds the same mask twice.
Covers(i) ==
    Cardinality({m \in 1..Len(segmentation_masks) : segmentation_masks[m].mask[i] # 0})
RedDistance(p) == (255 - p[1]) + p[2] + p[3]
SameMaskTwice ==
    /\ Len(segmentation_masks) = 2
    /\ segmentation_masks[1].mask = segmentation_masks[2].mask

\* Every pixel of an overlay is its source value with the red blend applied
\* once per covering mask.
BlendCompounds ==
    \A i \in 1..Len(Source.px) :
        Output.px[i] = RedBlendTimes(Source.px[i], Covers(i))

\* C25 as stated: the blend compounds, and with the same mask given twice
\* every covered pixel ends nearer to pure red than one application leaves it.
CexC25 ==
    (CalledOverlay /\ ~IsNone(result_image))
        => /\ BlendCompounds
           /\ SameMaskTwice
                 => \A i \in 1..Len(Source.px) :
                       Covers(i) = 2
                          => /\ Output.px[i] # RedBlend(Source.px[i])
                             /\ RedDistance(Output.px[i])
                                   < RedDistance(RedBlend(Source.px[i]))

\* C25 amended: the blend compounds (a pixel covered by k masks of the list
\* has the blend applied k times, k = 0 leaves the source value), and with the
\* same mask given twice no channel of a covered pixel is farther from pure
\* red than after one application; the pixel is strictly nearer unless one
\* application already left it at a value the blend maps to itself (red at
\* least 254, green and blue 0), where the second application changes nothing.
ThmC25 ==
    (CalledOverlay /\ ~IsNone(result_image))
        => /\ BlendCompounds
           /\ SameMaskTwice
                 => \A i \in 1..Len(Source.px) :
                       Covers(i) = 2
                          => LET once == RedBlend(Source.px[i])
                                 twice == Output.px[i]
                             IN /\ twice[1] >= once[1]
                                /\ twice[2] <= once[2]
                                /\ twice[3] <= once[3]
                                /\ (twice = once)
                                      <=> (once[1] >= 254 /\ once[2] = 0 /\ once[3] = 0)
                                /\ (twice # once)
                                      => RedDistance(twice) < RedDistance(once)

\* C25 witness: the same all-covering mask twice over a pixel that the second
\* application moves on and over a pixel that one application already
\* saturated.
WitC25 ==
    /\ CalledOverlay
    /\ ~IsNone(result_image)
    /\ SameMaskTwice
    /\ Source.px = <<<<10, 20, 30>>, <<254, 1, 0>>>>
    /\ \A i \in 1..Len(Source.px) : Covers(i) = 2
    /\ Output.px[1] = <<193, 5, 7>>
    /\ Output.px[2] = <<254, 0, 0>>
    /\ RedBlend(Source.px[1]) = <<132, 10, 15>>
    /\ RedBlend(Source.px[2]) = <<254, 0, 0>>

\* The workers whose thread is running, and the workers whose child process
\* is running.
RunningWorkers == {w \in 1..Len(workers) : isRunning(workers[w])}
RunningChildren == {w \in 1..Len(workers) : workers[w].process = "running"}

\* C26 as stated: a worker has emitted finished only when the child process
\* of its own run wrote the output file.
CexC26 ==
    \A w \in 1..Len(workers) :
        "finished" \in Range(workers[w].signals) => workers[w].wrote

\* C27 as stated: at no time is more than one worker running, nor more than
\* one child pipeline process.
CexC27 ==
    /\ Cardinality(RunningWorkers) <= 1
    /\ Cardinality(RunningChildren) <= 1

\* C28 as stated: while a worker is running the Run button is disabled, the
\* Cancel button enabled and the progress bar shown; once no worker is running
\* and every signal has been handled, the Run button is enabled, the Cancel
\* button disabled and the progress bar hidden.
CexC28 ==
    /\ RunningWorkers # {} => ui = start_processing
    /\ (RunningWorkers = {} /\ queue = <<>>) => ui = stop_processing

\* C29 as stated: a run that returned from run() without being cancelled has
\* emitted exactly one terminal signal, finished or error.
CexC29 ==
    \A w \in 1..Len(workers) :
        workers[w].pc = "done" => Len(workers[w].signals) = 1

\* process_image stands at its compositing stage or has gone through it.
ReachedCompositing == pc = "composite" \/ "composite" \in Events(log)

\* C30: whenever process_image has reached its compositing stage the mask
\* list is not empty, is as long as the list of grounding results, and its
\* i-th mask carries the box of the i-th grounding result; so the two counts
\* of the summary, len(grounding_results) and len(segmentation_masks), are
\* equal.
ThmC30 ==
    ReachedCompositing
        => /\ segmentation_masks # <<>>
           /\ Len(segmentation_masks) = Len(grounding_results)
           /\ \A i \in 1..Len(grounding_results) :
                 segmentation_masks[i].bbox = grounding_results[i].bbox
           /\ \A i \in 1..Len(log) :
                 log[i][1] = "completed"
                    => /\ log[i][2].found = log[i][2].generated
                       /\ log[i][2].found = Len(grounding_results)

\* C30 witness: the post-processor gave the same box twice; both results went
\* through segmentation and the summary was printed for two objects and two
\* masks.
WitC30 ==
    /\ log[Len(log)] = <<"completed", [found |-> 2, generated |-> 2]>>
    /\ bboxes_of(grounding_results) = <<"boxA", "boxA">>
    /\ Len(segmentation_masks) = 2
    /\ ~IsNone(result_path)

====
